---- MODULE Spec2Model ----
(***************************************************************************)
(* Relay: the configuration loader (configs/serverConfig.go) and the       *)
(* process-lifecycle controller (main.go): start an HTTP listener on a     *)
(* goroutine, block on a signal-derived context, drain with a 5 s deadline.*)
(***************************************************************************)
EXTENDS Integers, Sequences, FiniteSets, TLC

(***************************************************************************)
(* Bounds of the model.                                                    *)
(***************************************************************************)
\* OS signals (SIGINT/SIGTERM) the environment delivers in one run
MaxSignals == 2
\* connections the listener accepts in one run
MaxConns == 2
\* seconds the model clock runs past the creation of the shutdown context
MaxClock == 6
\* GetServerConfig calls in the loader's own specification
MaxLoads == 3

(***************************************************************************)
(* Program constants.                                                      *)
(***************************************************************************)
\* context.WithTimeout(context.Background(), 5*time.Second)
DrainDeadline == 5

\* the three variables GetServerConfig reads
Vars == {"PORT", "HOST", "ENV"}

\* a variable absent from the process environment / a key absent from .env
Unset == "<unset>"

\* a .env file that holds no key
NoKeys == [PORT |-> Unset, HOST |-> Unset, ENV |-> Unset]

\* the .env file: not there, unparsable, or a map of keys to values
Absent == [status |-> "absent", keys |-> NoKeys]
Malformed == [status |-> "malformed", keys |-> NoKeys]

\* values the process environment is started with
EnvironValues ==
  [PORT |-> {Unset, ":3000"},
   HOST |-> {Unset, "localhost"},
   ENV  |-> {Unset, "", "development", "production"}]

\* values a .env file gives
DotenvValues ==
  [PORT |-> {Unset, ":4000"},
   HOST |-> {Unset, "relay.local"},
   ENV  |-> {Unset, "development", "production"}]

Environs ==
  {[PORT |-> p, HOST |-> h, ENV |-> e] :
     p \in EnvironValues.PORT, h \in EnvironValues.HOST, e \in EnvironValues.ENV}
DotenvFiles ==
  {[status |-> "ok", keys |-> [PORT |-> p, HOST |-> h, ENV |-> e]] :
     p \in DotenvValues.PORT, h \in DotenvValues.HOST, e \in DotenvValues.ENV}

\* pointers: nil, or a pointer to a value
Nil == << >>
Ptr(v) == <<v>>
Deref(p) == p[1]

VARIABLES
  startEnviron, \* the environment the process was started with
  environ,      \* the process environment: Vars -> value or Unset
  dotenv,       \* the .env file of the working directory
  returned,     \* the values GetServerConfig has returned, in call order
  logs,         \* how often each log / stdout line was written
  pc,           \* main: the statement it is at
  gpc,          \* the accept-loop goroutine: the statement it is at
  proc,         \* the process: alive, exit0, panic, killed
  fault,        \* where a nil dereference panicked
  serverConfig, \* main's serverConfig
  server,       \* main's server (*http.Server or nil)
  notifying,    \* signal.Notify is registered for SIGINT/SIGTERM
  ctxDone,      \* ctx of signal.NotifyContext is cancelled
  fired,        \* times ctx was cancelled by a signal
  signals,      \* signals delivered so far
  inShutdown,   \* server.inShutdown
  listener,     \* the TCP listener: none, open, closed
  tracked,      \* the listener is registered with the server (Serve runs)
  lasErr,       \* the error ListenAndServe returned
  conns,        \* connection -> its state and the request it carries
  responses,    \* connection -> the response written to it
  elapsed,      \* seconds since the shutdown context was created
  shutdownErr,  \* the error server.Shutdown returned
  gpcAtDrain,   \* history: where the goroutine was when Shutdown was invoked
  lateSignals   \* history: signals delivered after main received ctx.Done()

vars == <<startEnviron, environ, dotenv, returned, logs, pc, gpc, proc, fault, serverConfig,
          server, notifying, ctxDone, fired, signals, inShutdown, listener,
          tracked, lasErr, conns, responses, elapsed, shutdownErr,
          gpcAtDrain, lateSignals>>

\* the history variables, which no statement of the program reads
history == <<gpcAtDrain, lateSignals>>

lifecycleVars == <<pc, gpc, proc, fault, serverConfig, server, notifying,
                   ctxDone, fired, signals, inShutdown, listener, tracked,
                   lasErr, conns, responses, elapsed, shutdownErr, history>>

(***************************************************************************)
(* configs/serverConfig.go                                                 *)
(***************************************************************************)
LogLines == {"starts", "envWarn", "listening", "acceptErr", "sigReceived",
             "forced", "exited"}

Log(l, line) == [l EXCEPT ![line] = @ + 1]

\* os.Getenv: the value, or "" when the variable is not set
Getenv(env, key) == IF env[key] = Unset THEN "" ELSE env[key]

\* godotenv.Load(): err != nil when .env cannot be opened or parsed
LoadErr(file) == file.status # "ok"

\* godotenv.Load(): sets the keys of .env the environment does not hold yet;
\* a variable that is already set (even to "") is never overridden
LoadEnv(env, file) ==
  IF LoadErr(file) THEN env
  ELSE [k \in Vars |->
          IF env[k] = Unset /\ file.keys[k] # Unset THEN file.keys[k]
          ELSE env[k]]

\* Mutant: the struct is filled before godotenv.Load() has run.
GetServerConfig_ReadBeforeLoad(env, file) ==
  [config  |-> Ptr([Port |-> Getenv(env, "PORT"),
                    Host |-> Getenv(env, "HOST"),
                    Env  |-> Getenv(env, "ENV")]),
   environ |-> LoadEnv(env, file),
   warn    |-> LoadErr(file)]

\* Mutant: a load error is treated as fatal and nil is returned.
GetServerConfig_NilOnErr(env, file) ==
  [config  |-> IF LoadErr(file) THEN Nil
               ELSE Ptr([Port |-> Getenv(LoadEnv(env, file), "PORT"),
                         Host |-> Getenv(LoadEnv(env, file), "HOST"),
                         Env  |-> Getenv(LoadEnv(env, file), "ENV")]),
   environ |-> LoadEnv(env, file),
   warn    |-> LoadErr(file)]

\* Mutant: an empty ENV is coerced to a default.
GetServerConfig_DefaultEnv(env, file) ==
  [config  |-> Ptr([Port |-> Getenv(LoadEnv(env, file), "PORT"),
                    Host |-> Getenv(LoadEnv(env, file), "HOST"),
                    Env  |-> IF Getenv(LoadEnv(env, file), "ENV") = ""
                             THEN "development"
                             ELSE Getenv(LoadEnv(env, file), "ENV")]),
   environ |-> LoadEnv(env, file),
   warn    |-> LoadErr(file)]

\* GetServerConfig: the returned struct, the environment it leaves behind,
\* and whether the warning was logged
GetServerConfig(env, file) ==
  [config  |-> Ptr([Port |-> Getenv(LoadEnv(env, file), "PORT"),
                    Host |-> Getenv(LoadEnv(env, file), "HOST"),
                    Env  |-> Getenv(LoadEnv(env, file), "ENV")]),
   environ |-> LoadEnv(env, file),
   warn    |-> LoadErr(file)]

\* a caller other than main calls GetServerConfig once more
CallGetServerConfig ==
  /\ Len(returned) < MaxLoads
  /\ LET r == GetServerConfig(environ, dotenv) IN
       /\ returned' = Append(returned, r.config)
       /\ environ' = r.environ
       /\ logs' = IF r.warn THEN Log(logs, "envWarn") ELSE logs
  /\ UNCHANGED <<startEnviron, dotenv, lifecycleVars>>

(***************************************************************************)
(* main.go: the router                                                     *)
(***************************************************************************)
Conns == 1..MaxConns

\* requests a client sends
Requests == {[method |-> "GET", path |-> "/"],
             [method |-> "POST", path |-> "/"],
             [method |-> "GET", path |-> "/deploy"]}

NoRequest == [method |-> "", path |-> ""]

\* w.Write([]byte(`{ "message": "Relay Service Started" }`))
LivenessBody == "{ \"message\": \"Relay Service Started\" }"

\* Mutant: the handler reports an error status with the same body.
Route_ErrorStatus(req) ==
  IF req.path = "/" /\ req.method = "GET"
    THEN [status |-> 500, body |-> LivenessBody]
  ELSE IF req.path = "/"
    THEN [status |-> 405, body |-> ""]
  ELSE [status |-> 404, body |-> "404 page not found\n"]

\* r := chi.NewRouter(); r.Get("/", ...): the one route answers with an
\* implicit 200 and the fixed body, chi answers 405 for another method on
\* it and 404 for any other path
Route(req) ==
  IF req.path = "/" /\ req.method = "GET"
    THEN [status |-> 200, body |-> LivenessBody]
  ELSE IF req.path = "/"
    THEN [status |-> 405, body |-> ""]
  ELSE [status |-> 404, body |-> "404 page not found\n"]

Active == {c \in Conns : conns[c].state = "active"}

\* the process ends: the kernel resets every connection still in flight
CutConns(cs) ==
  [c \in Conns |-> IF cs[c].state = "active"
                   THEN [cs[c] EXCEPT !.state = "cut"] ELSE cs[c]]

Alive == proc = "alive"

\* the environments and .env files the controller is started with: HOST is
\* never read by main, and of a .env file main sees only what ENV gives
StartEnvirons == {e \in Environs : e.HOST = "localhost"}
StartDotenvs ==
  {Absent} \cup {f \in DotenvFiles : /\ f.keys.PORT = Unset
                                    /\ f.keys.HOST = Unset
                                    /\ f.keys.ENV = "development"}

\* the process at its start, before main's first statement
InitProcess ==
  /\ startEnviron = environ
  /\ returned = <<>>
  /\ logs = [l \in LogLines |-> 0]
  /\ pc = "start"
  /\ gpc = "none"
  /\ proc = "alive"
  /\ fault = "none"
  /\ serverConfig = Nil
  /\ server = Nil
  /\ notifying = FALSE
  /\ ctxDone = FALSE
  /\ fired = 0
  /\ signals = 0
  /\ inShutdown = FALSE
  /\ listener = "none"
  /\ tracked = FALSE
  /\ lasErr = "unset"
  /\ conns = [c \in Conns |-> [state |-> "none", req |-> NoRequest]]
  /\ responses = [c \in Conns |-> Nil]
  /\ elapsed = 0
  /\ shutdownErr = "unset"
  /\ gpcAtDrain = "notInvoked"
  /\ lateSignals = 0

Init ==
  /\ environ \in StartEnvirons
  /\ dotenv \in StartDotenvs
  /\ InitProcess

\* the loader is called in any environment, with any .env file
LoaderInit ==
  /\ environ \in Environs
  /\ dotenv \in DotenvFiles \cup {Absent, Malformed}
  /\ InitProcess

(***************************************************************************)
(* main.go: func main, the controlling path                                *)
(***************************************************************************)
\* fmt.Println("Relay starts!"); r := chi.NewRouter(); r.Get("/", ...)
MainStart ==
  /\ Alive /\ pc = "start"
  /\ logs' = Log(logs, "starts")
  /\ pc' = "config"
  /\ UNCHANGED <<startEnviron, environ, dotenv, returned, gpc, proc, fault,
                 serverConfig, server, notifying, ctxDone, fired, signals,
                 inShutdown, listener, tracked, lasErr, conns, responses,
                 elapsed, shutdownErr, history>>

\* serverConfig := configs.GetServerConfig()
MainGetConfig ==
  /\ Alive /\ pc = "config"
  /\ LET r == GetServerConfig(environ, dotenv) IN
       /\ serverConfig' = r.config
       /\ returned' = Append(returned, r.config)
       /\ environ' = r.environ
       /\ logs' = IF r.warn THEN Log(logs, "envWarn") ELSE logs
  /\ pc' = "construct"
  /\ UNCHANGED <<startEnviron, dotenv, gpc, proc, fault, server, notifying,
                 ctxDone, fired, signals, inShutdown, listener, tracked,
                 lasErr, conns, responses, elapsed, shutdownErr, history>>

\* &http.Server{Addr: serverConfig.Port, Handler: r, ReadTimeout: 10s, ...}
NewServer(cfg) ==
  Ptr([Addr |-> cfg.Port, ReadTimeout |-> 10, WriteTimeout |-> 10,
       IdleTimeout |-> 60])

\* Mutant: the server is constructed whatever the environment is.
MainConstruct_Always ==
  /\ Alive /\ pc = "construct"
  /\ server' = NewServer(Deref(serverConfig))
  /\ pc' = "notify"
  /\ UNCHANGED <<startEnviron, environ, dotenv, returned, logs, gpc, proc,
                 fault, serverConfig, notifying, ctxDone, fired, signals,
                 inShutdown, listener, tracked, lasErr, conns, responses,
                 elapsed, shutdownErr, history>>

\* var server *http.Server; if serverConfig.Env == "development" { ... }
MainConstruct ==
  /\ Alive /\ pc = "construct"
  /\ server' = IF Deref(serverConfig).Env = "development"
               THEN NewServer(Deref(serverConfig)) ELSE Nil
  /\ pc' = "notify"
  /\ UNCHANGED <<startEnviron, environ, dotenv, returned, logs, gpc, proc,
                 fault, serverConfig, notifying, ctxDone, fired, signals,
                 inShutdown, listener, tracked, lasErr, conns, responses,
                 elapsed, shutdownErr, history>>

\* ctx, stop := signal.NotifyContext(..., os.Interrupt, syscall.SIGTERM)
MainNotifyContext ==
  /\ Alive /\ pc = "notify"
  /\ notifying' = TRUE
  /\ pc' = "go"
  /\ UNCHANGED <<startEnviron, environ, dotenv, returned, logs, gpc, proc,
                 fault, serverConfig, server, ctxDone, fired, signals,
                 inShutdown, listener, tracked, lasErr, conns, responses,
                 elapsed, shutdownErr, history>>

\* Mutant: the blocking receive on ctx.Done() is missing.
AfterGo_NoWait == "shutdown"

\* where main continues after the go statement: the receive on ctx.Done()
AfterGo == "wait"

\* go func() { ... }()
MainGo ==
  /\ Alive /\ pc = "go"
  /\ gpc' = "print"
  /\ pc' = AfterGo
  /\ UNCHANGED <<startEnviron, environ, dotenv, returned, logs, proc, fault,
                 serverConfig, server, notifying, ctxDone, fired, signals,
                 inShutdown, listener, tracked, lasErr, conns, responses,
                 elapsed, shutdownErr, history>>

\* Mutant: stop() is called as soon as the signal is received, which gives
\* SIGINT and SIGTERM their default disposition back during the drain.
MainAwaitSignal_StopEarly ==
  /\ Alive /\ pc = "wait"
  /\ ctxDone
  /\ logs' = Log(logs, "sigReceived")
  /\ elapsed' = 0
  /\ notifying' = FALSE
  /\ pc' = "shutdown"
  /\ UNCHANGED <<startEnviron, environ, dotenv, returned, gpc, proc, fault,
                 serverConfig, server, ctxDone, fired, signals, inShutdown,
                 listener, tracked, lasErr, conns, responses, shutdownErr,
                 history>>

\* <-ctx.Done(); slog.Info("Shutdown Signal received, ...");
\* shutdownCtx, cancel := context.WithTimeout(context.Background(), 5s)
MainAwaitSignal ==
  /\ Alive /\ pc = "wait"
  /\ ctxDone
  /\ logs' = Log(logs, "sigReceived")
  /\ elapsed' = 0
  /\ pc' = "shutdown"
  /\ UNCHANGED <<startEnviron, environ, dotenv, returned, gpc, proc, fault,
                 serverConfig, server, notifying, ctxDone, fired, signals,
                 inShutdown, listener, tracked, lasErr, conns, responses,
                 shutdownErr, history>>

\* Mutant: Shutdown leaves the listener open.
CloseListeners_Noop(l, t) == l

\* srv.closeListenersLocked(): closes the listeners Serve has registered
CloseListeners(l, t) == IF t /\ l = "open" THEN "closed" ELSE l

\* err := server.Shutdown(shutdownCtx): srv.inShutdown.Store(true) faults on
\* a nil server; otherwise the registered listeners are closed
MainShutdown ==
  /\ Alive /\ pc = "shutdown"
  /\ IF server = Nil
       THEN /\ proc' = "panic"
            /\ fault' = "main:255"
            /\ conns' = CutConns(conns)
            /\ UNCHANGED <<pc, inShutdown, listener>>
       ELSE /\ inShutdown' = TRUE
            /\ listener' = CloseListeners(listener, tracked)
            /\ pc' = "waitListeners"
            /\ UNCHANGED <<proc, fault, conns>>
  /\ gpcAtDrain' = IF server = Nil THEN gpcAtDrain ELSE gpc
  /\ UNCHANGED <<startEnviron, environ, dotenv, returned, logs, gpc,
                 serverConfig, server, notifying, ctxDone, fired, signals,
                 tracked, lasErr, responses, elapsed, shutdownErr,
                 lateSignals>>

\* Shutdown: srv.listenerGroup.Wait(), until Serve has given its listener up
MainWaitListeners ==
  /\ Alive /\ pc = "waitListeners"
  /\ ~tracked
  /\ pc' = "poll"
  /\ UNCHANGED <<startEnviron, environ, dotenv, returned, logs, gpc, proc,
                 fault, serverConfig, server, notifying, ctxDone, fired,
                 signals, inShutdown, listener, tracked, lasErr, conns,
                 responses, elapsed, shutdownErr, history>>

\* Mutant: Shutdown is given a context without a deadline.
DeadlineReached_Never(t) == FALSE

\* shutdownCtx.Done(): the 5 s of context.WithTimeout have passed
DeadlineReached(t) == t >= DrainDeadline

\* Mutant: Shutdown returns at once, as server.Close() would.
Quiescent_Always(active) == TRUE

\* srv.closeIdleConns(): true when no connection is serving a request
Quiescent(active) == active = {}

\* Shutdown's poll loop: nil once no connection is in flight, ctx.Err()
\* when the deadline passes first
MainShutdownReturns ==
  /\ Alive /\ pc = "poll"
  /\ \/ /\ Quiescent(Active)
        /\ shutdownErr' = "nil"
     \/ /\ ~Quiescent(Active)
        /\ DeadlineReached(elapsed)
        /\ shutdownErr' = "DeadlineExceeded"
  /\ pc' = "checkerr"
  /\ UNCHANGED <<startEnviron, environ, dotenv, returned, logs, gpc, proc,
                 fault, serverConfig, server, notifying, ctxDone, fired,
                 signals, inShutdown, listener, tracked, lasErr, conns,
                 responses, elapsed, history>>

\* if err != nil { slog.Error("Server forced to shutdown:", ...) }
MainCheckErr ==
  /\ Alive /\ pc = "checkerr"
  /\ logs' = IF shutdownErr # "nil" THEN Log(logs, "forced") ELSE logs
  /\ pc' = "logexit"
  /\ UNCHANGED <<startEnviron, environ, dotenv, returned, gpc, proc, fault,
                 serverConfig, server, notifying, ctxDone, fired, signals,
                 inShutdown, listener, tracked, lasErr, conns, responses,
                 elapsed, shutdownErr, history>>

\* slog.Info("Server Exited!")
MainLogExit ==
  /\ Alive /\ pc = "logexit"
  /\ logs' = Log(logs, "exited")
  /\ pc' = "return"
  /\ UNCHANGED <<startEnviron, environ, dotenv, returned, gpc, proc, fault,
                 serverConfig, server, notifying, ctxDone, fired, signals,
                 inShutdown, listener, tracked, lasErr, conns, responses,
                 elapsed, shutdownErr, history>>

\* Mutant: main joins the accept-loop goroutine before it returns.
MainReturn_Join ==
  /\ Alive /\ pc = "return"
  /\ gpc = "end"
  /\ notifying' = FALSE
  /\ proc' = "exit0"
  /\ conns' = CutConns(conns)
  /\ pc' = "done"
  /\ UNCHANGED <<startEnviron, environ, dotenv, returned, logs, gpc, fault,
                 serverConfig, server, ctxDone, fired, signals, inShutdown,
                 listener, tracked, lasErr, responses, elapsed, shutdownErr,
                 history>>

\* main returns: the deferred cancel() and stop() run, the process exits 0
MainReturn ==
  /\ Alive /\ pc = "return"
  /\ notifying' = FALSE
  /\ proc' = "exit0"
  /\ conns' = CutConns(conns)
  /\ pc' = "done"
  /\ UNCHANGED <<startEnviron, environ, dotenv, returned, logs, gpc, fault,
                 serverConfig, server, ctxDone, fired, signals, inShutdown,
                 listener, tracked, lasErr, responses, elapsed, shutdownErr, history>>

Main ==
  \/ MainStart \/ MainGetConfig \/ MainConstruct \/ MainNotifyContext
  \/ MainGo \/ MainAwaitSignal \/ MainShutdown \/ MainWaitListeners
  \/ MainShutdownReturns \/ MainCheckErr \/ MainLogExit \/ MainReturn

(***************************************************************************)
(* main.go: the accept-loop goroutine                                      *)
(***************************************************************************)
\* fmt.Printf("Relay Backend Server listening on PORT%s\n", server.Addr):
\* reading server.Addr faults on a nil server
GoPrintf ==
  /\ Alive /\ gpc = "print"
  /\ IF server = Nil
       THEN /\ proc' = "panic"
            /\ fault' = "goroutine:233"
            /\ conns' = CutConns(conns)
            /\ UNCHANGED <<gpc, logs>>
       ELSE /\ logs' = Log(logs, "listening")
            /\ gpc' = "listenAndServe"
            /\ UNCHANGED <<proc, fault, conns>>
  /\ UNCHANGED <<startEnviron, environ, dotenv, returned, pc, serverConfig,
                 server, notifying, ctxDone, fired, signals, inShutdown,
                 listener, tracked, lasErr, responses, elapsed, shutdownErr, history>>

\* Mutant: ListenAndServe binds without looking at srv.shuttingDown().
GoListenAndServe_NoCheck ==
  /\ Alive /\ gpc = "listenAndServe"
  /\ lasErr' = lasErr /\ gpc' = "listen"
  /\ UNCHANGED <<startEnviron, environ, dotenv, returned, logs, pc, proc,
                 fault, serverConfig, server, notifying, ctxDone, fired,
                 signals, inShutdown, listener, tracked, conns, responses,
                 elapsed, shutdownErr, history>>

\* server.ListenAndServe(): if srv.shuttingDown() { return ErrServerClosed }
GoListenAndServe ==
  /\ Alive /\ gpc = "listenAndServe"
  /\ IF inShutdown
       THEN lasErr' = "ErrServerClosed" /\ gpc' = "returned"
       ELSE lasErr' = lasErr /\ gpc' = "listen"
  /\ UNCHANGED <<startEnviron, environ, dotenv, returned, logs, pc, proc,
                 fault, serverConfig, server, notifying, ctxDone, fired,
                 signals, inShutdown, listener, tracked, conns, responses,
                 elapsed, shutdownErr, history>>

\* ListenAndServe: ln, err := net.Listen("tcp", addr): the bind succeeds, or
\* fails (the port is in use, the address is not a valid one, ...)
GoListen ==
  /\ Alive /\ gpc = "listen"
  /\ \/ /\ listener' = "open"
        /\ gpc' = "serve"
        /\ lasErr' = lasErr
     \/ /\ listener' = listener
        /\ lasErr' = "listenError"
        /\ gpc' = "returned"
  /\ UNCHANGED <<startEnviron, environ, dotenv, returned, logs, pc, proc,
                 fault, serverConfig, server, notifying, ctxDone, fired,
                 signals, inShutdown, tracked, conns, responses, elapsed,
                 shutdownErr, history>>

\* srv.Serve(ln): if !srv.trackListener(&l, true) { return ErrServerClosed },
\* with the deferred l.Close()
GoServe ==
  /\ Alive /\ gpc = "serve"
  /\ IF inShutdown
       THEN /\ listener' = "closed"
            /\ lasErr' = "ErrServerClosed"
            /\ gpc' = "returned"
            /\ tracked' = tracked
       ELSE /\ tracked' = TRUE
            /\ gpc' = "accept"
            /\ UNCHANGED <<listener, lasErr>>
  /\ UNCHANGED <<startEnviron, environ, dotenv, returned, logs, pc, proc,
                 fault, serverConfig, server, notifying, ctxDone, fired,
                 signals, inShutdown, conns, responses, elapsed, shutdownErr, history>>

\* the connection the next l.Accept() returns
NextConn == CHOOSE c \in Conns :
              /\ conns[c].state = "none"
              /\ \A d \in Conns : d < c => conns[d].state # "none"

\* Serve's loop: rw, err := l.Accept(); go c.serve(connCtx)
GoAccept ==
  /\ Alive /\ gpc = "accept"
  /\ listener = "open"
  /\ \E c \in Conns : conns[c].state = "none"
  /\ \E req \in Requests :
       conns' = [conns EXCEPT ![NextConn] = [state |-> "active", req |-> req]]
  /\ UNCHANGED <<startEnviron, environ, dotenv, returned, logs, pc, gpc, proc,
                 fault, serverConfig, server, notifying, ctxDone, fired,
                 signals, inShutdown, listener, tracked, lasErr, responses,
                 elapsed, shutdownErr, history>>

\* Serve's loop: l.Accept() fails on the closed listener, Serve returns
\* ErrServerClosed and its deferred trackListener(&l, false) runs
GoAcceptClosed ==
  /\ Alive /\ gpc = "accept"
  /\ listener = "closed"
  /\ tracked' = FALSE
  /\ lasErr' = "ErrServerClosed"
  /\ gpc' = "returned"
  /\ UNCHANGED <<startEnviron, environ, dotenv, returned, logs, pc, proc,
                 fault, serverConfig, server, notifying, ctxDone, fired,
                 signals, inShutdown, listener, conns, responses, elapsed,
                 shutdownErr, history>>

\* Mutant: the comparison with http.ErrServerClosed is missing.
IsAcceptLoopError_AnyErr(err) == err # "nil"

\* if err != nil && err != http.ErrServerClosed
IsAcceptLoopError(err) == err \notin {"nil", "ErrServerClosed"}

\* if err != nil && err != http.ErrServerClosed { slog.Error(...) }
GoCheckErr ==
  /\ Alive /\ gpc = "returned"
  /\ logs' = IF IsAcceptLoopError(lasErr) THEN Log(logs, "acceptErr") ELSE logs
  /\ gpc' = "end"
  /\ UNCHANGED <<startEnviron, environ, dotenv, returned, pc, proc, fault,
                 serverConfig, server, notifying, ctxDone, fired, signals,
                 inShutdown, listener, tracked, lasErr, conns, responses,
                 elapsed, shutdownErr, history>>

Goroutine ==
  \/ GoPrintf \/ GoListenAndServe \/ GoListen \/ GoServe \/ GoAccept
  \/ GoAcceptClosed \/ GoCheckErr

\* c.serve: the router answers the request of connection c
Handle(c) ==
  /\ Alive /\ conns[c].state = "active"
  /\ responses' = [responses EXCEPT ![c] = Ptr(Route(conns[c].req))]
  /\ conns' = [conns EXCEPT ![c].state = "done"]
  /\ UNCHANGED <<startEnviron, environ, dotenv, returned, logs, pc, gpc, proc,
                 fault, serverConfig, server, notifying, ctxDone, fired,
                 signals, inShutdown, listener, tracked, lasErr, elapsed,
                 shutdownErr, history>>

Handlers == \E c \in Conns : Handle(c)

(***************************************************************************)
(* The environment: signals and time                                       *)
(***************************************************************************)
\* Mutant: every signal received counts as a new cancellation.
FiredAfter_Every(done, n) == n + 1

\* signal.NotifyContext: the first signal received cancels ctx, a later one
\* finds it cancelled
FiredAfter(done, n) == IF done THEN n ELSE n + 1

\* the OS delivers SIGINT or SIGTERM: before signal.NotifyContext (and after
\* stop()) the default disposition ends the process; afterwards the first
\* signal cancels ctx
Signal ==
  /\ Alive /\ signals < MaxSignals
  /\ signals' = signals + 1
  /\ lateSignals' = IF pc \in {"shutdown", "waitListeners", "poll",
                               "checkerr", "logexit", "return"}
                    THEN lateSignals + 1 ELSE lateSignals
  /\ IF ~notifying
       THEN /\ proc' = "killed"
            /\ conns' = CutConns(conns)
            /\ UNCHANGED <<ctxDone, fired>>
       ELSE /\ ctxDone' = TRUE
            /\ fired' = FiredAfter(ctxDone, fired)
            /\ UNCHANGED <<proc, conns>>
  /\ UNCHANGED <<startEnviron, environ, dotenv, returned, logs, pc, gpc, fault,
                 serverConfig, server, notifying, inShutdown, listener,
                 tracked, lasErr, responses, elapsed, shutdownErr,
                 gpcAtDrain>>

\* a second passes while Shutdown polls; the deadline of shutdownCtx ends
\* the poll before time moves past it
Tick ==
  /\ Alive /\ pc = "poll"
  /\ elapsed < MaxClock
  /\ ~DeadlineReached(elapsed)
  /\ elapsed' = elapsed + 1
  /\ UNCHANGED <<startEnviron, environ, dotenv, returned, logs, pc, gpc, proc,
                 fault, serverConfig, server, notifying, ctxDone, fired,
                 signals, inShutdown, listener, tracked, lasErr, conns,
                 responses, shutdownErr, history>>

Next == Main \/ Goroutine \/ Handlers \/ Signal \/ Tick

Spec == Init /\ [][Next]_vars

\* the Go scheduler runs every runnable goroutine, and time passes
FairSpec ==
  Spec /\ WF_vars(Main) /\ WF_vars(Goroutine) /\ WF_vars(Tick)

(***************************************************************************)
(* The controller's state, read off main's position                        *)
(***************************************************************************)
\* 4.2: Idle until a Configuration for "development" is received (another
\* environment makes no transition), Starting until the accept loop is
\* launched, Running while main blocks on ctx.Done(), Draining from the
\* receipt of the signal, Stopped once main has logged the exit line and
\* returned
ctrlState ==
  IF serverConfig = Nil \/ pc \in {"start", "config"} THEN "Idle"
  ELSE IF Deref(serverConfig).Env # "development" THEN "Idle"
  ELSE IF pc \in {"construct", "notify", "go"} THEN "Starting"
  ELSE IF pc = "wait" THEN "Running"
  ELSE IF pc = "done" THEN "Stopped"
  ELSE "Draining"

\* the loader on its own: GetServerConfig called repeatedly, nothing else
\* touching the environment or the file in between
LoaderNext == CallGetServerConfig

LoaderSpec == LoaderInit /\ [][LoaderNext]_vars

(***************************************************************************)
(* Properties                                                              *)
(***************************************************************************)
\* server.Shutdown has been called (on a nil server it faults at once)
ShutdownInvoked == inShutdown \/ fault = "main:255"

\* the exit status the parent observes
ExitStatus ==
  CASE proc = "exit0" -> 0
    [] proc = "panic" -> 2
    [] proc = "killed" -> 143
    [] OTHER -> -1

\* C1: a signal delivered while Running leads to Draining and Draining
\* always leads to Stopped, whether Shutdown returns nil or the deadline
\* error; Stopped is never reached later than DrainDeadline seconds after
\* the shutdown context was created.
C1_SignalLeadsToStopped ==
  /\ (ctrlState = "Running" /\ ctxDone) ~> (ctrlState = "Draining")
  /\ (ctrlState = "Draining") ~> (ctrlState = "Stopped" /\ logs["exited"] = 1)
  /\ [](ctrlState = "Stopped" => elapsed <= DrainDeadline)

\* C1 witness: Stopped was reached through the elapsed deadline, a
\* connection still in flight.
C1_Witness ==
  /\ ctrlState = "Stopped"
  /\ proc = "exit0"
  /\ shutdownErr = "DeadlineExceeded"
  /\ elapsed = DrainDeadline

\* C2: once Shutdown has been invoked no connection is accepted any more,
\* and a connection is cut off by the exit only when it was still in flight
\* at the deadline.
C2_DrainStopsAccepting ==
  [][/\ inShutdown =>
          \A c \in Conns : conns[c].state = "none" => conns'[c].state = "none"
     /\ \A c \in Conns :
          (conns[c].state = "active" /\ conns'[c].state = "cut") =>
             (shutdownErr = "DeadlineExceeded" /\ elapsed >= DrainDeadline)]_vars

\* C2 witness: Shutdown is polling, the listener is closed, and a connection
\* accepted before the drain is still being served before the deadline.
C2_Witness ==
  /\ pc = "poll"
  /\ inShutdown
  /\ listener = "closed"
  /\ Active # {}
  /\ elapsed > 0 /\ elapsed < DrainDeadline

\* C3 as claimed: once the accept-loop task is past its start-up, a Running
\* controller has an open listener, so that GET / is answered, with status
\* 200 and the fixed body.
C3_RunningServesLiveness ==
  /\ (ctrlState = "Running" /\ gpc \in {"accept", "returned", "end"}) =>
        listener = "open"
  /\ \A c \in Conns :
        (responses[c] # Nil /\ conns[c].req = [method |-> "GET", path |-> "/"])
          => Deref(responses[c]).status = 200

\* C3 as amended: with ENV = "development" main reaches Running unless a
\* signal ends the process before signal.NotifyContext; a Running controller
\* whose accept loop is accepting has an open listener; and every GET / that
\* is answered gets status 200 and the fixed body.
C3_DevelopmentReachesRunning ==
  /\ (pc = "construct" /\ Deref(serverConfig).Env = "development")
        ~> ((pc = "wait" /\ server # Nil /\ gpc # "none") \/ proc = "killed")
  /\ [](ctrlState = "Running" /\ gpc = "accept" => listener = "open")
  /\ [](\A c \in Conns :
          (responses[c] # Nil
             /\ conns[c].req = [method |-> "GET", path |-> "/"])
          => Deref(responses[c]) =
               [status |-> 200,
                body |-> "{ \"message\": \"Relay Service Started\" }"])

\* C3 witness: Running, listening, and a GET / has been answered.
C3_Witness ==
  /\ ctrlState = "Running"
  /\ listener = "open"
  /\ \E c \in Conns :
       /\ conns[c].req = [method |-> "GET", path |-> "/"]
       /\ responses[c] # Nil

\* C4 as claimed: the accept-loop task is never launched, and main never
\* waits on the signal, while the server is unset.
C4_NoRunningWithoutServer ==
  (gpc # "none" \/ pc = "wait") => server # Nil

\* C5: ctx is cancelled by a signal at most once, Shutdown is invoked only
\* after that, the listener is closed only after that, and the exit line is
\* logged only after Shutdown was invoked.
C5_SignalThenDrainThenExit ==
  /\ fired <= 1
  /\ ShutdownInvoked => (fired = 1 /\ ctxDone)
  /\ listener = "closed" => fired = 1
  /\ logs["exited"] > 0 => (ShutdownInvoked /\ logs["exited"] = 1)

\* C5 witness: two signals were delivered, and the exit line is logged.
C5_Witness ==
  /\ signals = 2
  /\ fired = 1
  /\ logs["exited"] = 1

\* C6 as claimed: a process that ended on its own (it returned from main or
\* panicked, it was not killed by the OS) ended with exit status 0.
C6_ExitStatusZero ==
  proc \in {"exit0", "panic"} => ExitStatus = 0

\* the raw value of an environment variable
RawValue(env, key) == IF env[key] = Unset THEN "" ELSE env[key]

\* the Configuration an environment gives, field by field
ConfigOf(env) ==
  [Port |-> RawValue(env, "PORT"),
   Host |-> RawValue(env, "HOST"),
   Env  |-> RawValue(env, "ENV")]

\* C7: all calls of GetServerConfig in one process, with the .env file
\* unchanged, return Configurations equal in Port, Host and Env.
C7_LoadIdempotent ==
  \A i, j \in 1..Len(returned) :
    /\ returned[i] # Nil
    /\ returned[j] # Nil
    /\ Deref(returned[i]).Port = Deref(returned[j]).Port
    /\ Deref(returned[i]).Host = Deref(returned[j]).Host
    /\ Deref(returned[i]).Env = Deref(returned[j]).Env

\* C7 witness: two calls were made and the first one added variables of
\* the .env file to the environment.
C7_Witness ==
  /\ Len(returned) >= 2
  /\ environ # startEnviron

\* C8: with no .env file every call logs one warning and returns the
\* Configuration of the process environment, which it leaves as it was.
C8_MissingFileLoads ==
  dotenv = Absent =>
    /\ logs["envWarn"] = Len(returned)
    /\ environ = startEnviron
    /\ \A i \in 1..Len(returned) :
         returned[i] # Nil /\ Deref(returned[i]) = ConfigOf(startEnviron)

\* C8 witness: a load without a .env file, in an environment that sets ENV.
C8_Witness ==
  /\ dotenv = Absent
  /\ Len(returned) = 1
  /\ startEnviron["ENV"] = "development"

\* C9: every call returns a Configuration, never nil, whose fields are the
\* raw values of PORT, HOST and ENV as the call left them, "" for an unset
\* variable.
C9_RawValuesReturned ==
  \A i \in 1..Len(returned) :
    returned[i] # Nil /\ Deref(returned[i]) = ConfigOf(environ)

\* C9 witness: a Configuration with an empty Port and an unrecognized Env
\* was returned.
C9_Witness ==
  /\ Len(returned) >= 1
  /\ returned[1] # Nil
  /\ Deref(returned[1]).Port = ""
  /\ Deref(returned[1]).Env \in {"", "production"}

\* the place of a state in Idle, Starting, Running, Draining, Stopped
Rank(st) ==
  CASE st = "Idle" -> 0
    [] st = "Starting" -> 1
    [] st = "Running" -> 2
    [] st = "Draining" -> 3
    [] st = "Stopped" -> 4

\* C10: every change of the controller's state is a move to the next state
\* of Idle, Starting, Running, Draining, Stopped.
C10_StateMovesForward ==
  [][ctrlState' # ctrlState => Rank(ctrlState') = Rank(ctrlState) + 1]_vars

\* C10 witness: Stopped was reached although the listener had failed to
\* start.
C10_Witness ==
  /\ ctrlState = "Stopped"
  /\ lasErr = "listenError"

\* C11: the accept-loop error line is logged exactly when ListenAndServe
\* returned an error other than http.ErrServerClosed; the step that logs it
\* ends the task and leaves the process alive; a listener closed by the
\* drain never leads to that line.
C11_AcceptLoopErrorLogged ==
  /\ [](logs["acceptErr"] <= 1)
  /\ [](gpc = "end" => (logs["acceptErr"] = 1 <=> lasErr = "listenError"))
  /\ [](gpc # "end" => logs["acceptErr"] = 0)
  /\ [](lasErr \in {"unset", "ErrServerClosed"} => logs["acceptErr"] = 0)
  /\ [][logs'["acceptErr"] > logs["acceptErr"] =>
          (gpc' = "end" /\ proc' = "alive" /\ pc' = pc)]_vars

\* C11 witness: net.Listen failed, the error line was logged, the task has
\* ended and the process lives on.
C11_Witness ==
  /\ gpc = "end"
  /\ lasErr = "listenError"
  /\ logs["acceptErr"] = 1
  /\ proc = "alive"

\* C12: after a failed net.Listen and before any signal, main is blocked on
\* ctx.Done() with no listener and the process alive; once the signal has
\* fired main runs the drain and reaches Stopped.
C12_ListenFailureKeepsWaiting ==
  /\ [](lasErr = "listenError" /\ ~ctxDone =>
          (pc = "wait" /\ proc = "alive" /\ listener = "none"
             /\ ~ShutdownInvoked /\ logs["exited"] = 0))
  /\ (lasErr = "listenError" /\ ctxDone) ~>
        (pc = "done" /\ proc = "exit0" /\ logs["exited"] = 1)

\* C12 witness: the listener failed, the signal came afterwards, and main
\* has drained and returned.
C12_Witness ==
  /\ lasErr = "listenError"
  /\ gpcAtDrain = "end"
  /\ pc = "done"
  /\ shutdownErr = "nil"

\* connections the end of the process has cut off
Cut == {c \in Conns : conns[c].state = "cut"}

\* C13 as claimed: once the deadline has ended the drain, every connection
\* still in flight is forcibly closed: none of them completes any more.
C13_RemainingConnsForced ==
  [][shutdownErr = "DeadlineExceeded" =>
       \A c \in Conns : conns[c].state = "active" => conns'[c].state # "done"]_vars

\* C13 as amended: the "forced" line is logged once, exactly when Shutdown
\* returned the deadline error, which it does only at the deadline with a
\* connection in flight; main then logs the exit line and returns with
\* status 0; a connection is cut only by the end of the process, never by
\* Shutdown, and never after a drain that returned nil; none is left in
\* flight once main has returned.
C13_DeadlineLoggedAndExit ==
  /\ [](logs["forced"] <= 1)
  /\ [](logs["forced"] = 1 =>
          (shutdownErr = "DeadlineExceeded" /\ elapsed >= DrainDeadline))
  /\ [](pc \in {"logexit", "return", "done"} =>
          (logs["forced"] = 1 <=> shutdownErr = "DeadlineExceeded"))
  /\ [](shutdownErr = "nil" => Cut = {})
  /\ [](pc = "done" => Active = {})
  /\ [][\A c \in Conns :
          (conns[c].state = "active" /\ conns'[c].state = "cut") =>
             proc' # "alive"]_vars
  /\ (shutdownErr = "DeadlineExceeded") ~>
        (pc = "done" /\ proc = "exit0" /\ logs["exited"] = 1)

\* C13 witness: the deadline ended the drain, the error and the exit line
\* were logged, main returned and the exit cut a connection.
C13_Witness ==
  /\ pc = "done"
  /\ proc = "exit0"
  /\ shutdownErr = "DeadlineExceeded"
  /\ logs["forced"] = 1
  /\ logs["exited"] = 1
  /\ Cut # {}

\* C14 as claimed: a nil-reference fault happens only in the controlling
\* path's drain call.
C14_FaultOnlyInDrainCall ==
  proc = "panic" => fault = "main:255"

\* C14 as amended: with ENV other than "development" the server stays nil
\* and nothing faults up to the go statement; the fault happens at the first
\* use of the nil server, which is the goroutine's read of server.Addr or,
\* when the signal has fired and main runs first, main's server.Shutdown.
C14_NilFaultAtFirstUse ==
  /\ (pc \notin {"start", "config", "construct"}
        /\ Deref(serverConfig).Env # "development") => server = Nil
  /\ pc \in {"start", "config", "construct", "notify", "go"} => proc # "panic"
  /\ fault # "none" <=> proc = "panic"
  /\ proc = "panic" =>
       /\ server = Nil
       /\ Deref(serverConfig).Env # "development"
       /\ \/ fault = "goroutine:233" /\ gpc = "print"
          \/ fault = "main:255" /\ pc = "shutdown" /\ ctxDone

\* C14 witness: the goroutine faulted on server.Addr before any signal.
C14_Witness ==
  /\ proc = "panic"
  /\ fault = "goroutine:233"
  /\ signals = 0
  /\ pc = "wait"

\* no connection has been accepted
NoneAccepted == \A c \in Conns : conns[c].state = "none"

\* C15 as claimed: when Shutdown was invoked before the task had called
\* net.Listen, the task opens no listener, accepts nothing, logs no error
\* and returns http.ErrServerClosed.
C15_NoListenerAfterEarlyDrain ==
  gpcAtDrain \in {"print", "listenAndServe", "listen"} =>
    /\ listener = "none"
    /\ NoneAccepted
    /\ logs["acceptErr"] = 0
    /\ gpc \in {"returned", "end"} => lasErr = "ErrServerClosed"

\* C15 as amended: when Shutdown was invoked before the task had entered
\* ListenAndServe's shuttingDown check, the task opens no listener, accepts
\* nothing, logs no error and returns http.ErrServerClosed; when it was
\* invoked after that check and before Serve registered the listener, the
\* task may still bind (or fail to bind) but never accepts a connection.
C15_EarlyDrainNeverAccepts ==
  /\ gpcAtDrain \in {"print", "listenAndServe"} =>
       /\ gpc \in {"print", "listenAndServe", "returned", "end"}
       /\ listener = "none"
       /\ NoneAccepted
       /\ logs["acceptErr"] = 0
       /\ gpc \in {"returned", "end"} => lasErr = "ErrServerClosed"
  /\ gpcAtDrain \in {"listen", "serve"} =>
       /\ gpc # "accept"
       /\ ~tracked
       /\ NoneAccepted
       /\ gpc = "end" =>
            (logs["acceptErr"] = 1 <=> lasErr = "listenError")

\* C15 witness: Shutdown was invoked before the task ran; the task then
\* went through ListenAndServe and ended, no listener opened, no error
\* logged.
C15_Witness ==
  /\ gpcAtDrain = "print"
  /\ gpc = "end"
  /\ lasErr = "ErrServerClosed"
  /\ listener = "none"
  /\ logs["acceptErr"] = 0

\* main is between the receive on ctx.Done() and its return
InDrain ==
  pc \in {"shutdown", "waitListeners", "poll", "checkerr", "logexit", "return"}

\* C16: a signal delivered while main is draining changes nothing but the
\* count of delivered signals: the drain clock, the drain, the listener, the
\* connections, the logs and the process are as before; and the receipt of
\* the signal is logged at most once.
C16_LateSignalIgnored ==
  /\ [][(InDrain /\ signals' # signals) =>
          /\ elapsed' = elapsed
          /\ UNCHANGED <<pc, gpc, proc, fault, ctxDone, fired, notifying>>
          /\ UNCHANGED <<inShutdown, listener, tracked, lasErr, shutdownErr>>
          /\ UNCHANGED <<conns, responses, logs, gpcAtDrain>>]_vars
  /\ [](logs["sigReceived"] <= 1)
  /\ [](fired <= 1)

\* C16 witness: a second signal was delivered during the drain, and main
\* has gone on to log the exit line and return.
C16_Witness ==
  /\ lateSignals = 1
  /\ signals = 2
  /\ fired = 1
  /\ pc = "done"
  /\ proc = "exit0"
  /\ logs["exited"] = 1

====
